---- MODULE Spec2Model ----
(***************************************************************************)
(* A model of vimtodo (src/main.py): the TodoApp object (task forest,      *)
(* cursor path, undo/redo stacks, mode, clipboard and storage              *)
(* collaborators) driven by the key dispatch of main() and                 *)
(* handle_insert_mode().                                                   *)
(*                                                                         *)
(* Representation.                                                         *)
(*   - A Python str is a sequence of one-character strings, so that        *)
(*     str.strip() and str.splitlines() are computed, not assumed.         *)
(*   - A todo dict is a record [text, completed, has_children, children];  *)
(*     has_children says whether the dict holds the key "children"         *)
(*     (children is <<>> when it does not).                                *)
(*   - A path is a sequence of 0-based indices, as in the source; TLA+     *)
(*     sequences are 1-based, hence the "+ 1" where a path indexes a list. *)
(*   - None is the empty sequence and a present value v is <<v>>.          *)
(*   - Snapshots are values: copy.deepcopy() is the identity on values,    *)
(*     and no list is shared between self.todos and a stack entry because  *)
(*     every push copies and every pop removes the entry it installs.      *)
(***************************************************************************)
EXTENDS Integers, Sequences, FiniteSets, TLC

VARIABLES
    todos,          \* self.todos
    current_path,   \* self.current_path
    current_line,   \* self.current_line: <<>> while the attribute does not exist
    mode,           \* self.mode
    command_buffer, \* self.command_buffer
    message,        \* self.message
    visual_start,   \* self.visual_start: <<>> is None
    visual_end,     \* self.visual_end: <<>> is None
    undo_stack,     \* self.undo_stack
    redo_stack,     \* self.redo_stack
    saved,          \* the content of the file self.filename
    writable,       \* whether the file can be written
    pc,             \* where control is: main's loop, handle_insert_mode's loop, or ended
    T0,             \* history: the forest as loaded at construction
    last,           \* history: the operation the last step ran, with its inputs
    round_trip      \* history: the state before an undo, kept while a redo follows it

vars == <<todos, current_path, current_line, mode, command_buffer, message,
          visual_start, visual_end, undo_stack, redo_stack, saved,
          writable, pc, T0, last, round_trip>>

(***************************************************************************)
(* Bounds of the model.                                                    *)
(***************************************************************************)
\* No operation grows the forest beyond this many todos.
MaxTasks == 3
\* No operation grows the undo stack beyond this many snapshots.
MaxHist == 1

(***************************************************************************)
(* Strings.                                                                *)
(***************************************************************************)
NL == "\n"
SP == " "

IsSpace(c) == c \in {SP, NL}

\* str.strip(): leading and trailing whitespace removed.
RECURSIVE lstrip(_)
lstrip(s) == IF s # <<>> /\ IsSpace(Head(s)) THEN lstrip(Tail(s)) ELSE s

RECURSIVE rstrip(_)
rstrip(s) ==
    IF s # <<>> /\ IsSpace(s[Len(s)]) THEN rstrip(SubSeq(s, 1, Len(s) - 1)) ELSE s

\* Mutant: a strip that removes nothing.
strip_nothing(s) == s

strip(s) == rstrip(lstrip(s))

\* The position of the first line break of s, 0 when it has none.
RECURSIVE first_break(_, _)
first_break(s, i) ==
    IF i > Len(s) THEN 0
    ELSE IF s[i] = NL THEN i
    ELSE first_break(s, i + 1)

\* str.splitlines(): the lines of s without their line breaks; a final line
\* break opens no further line.
RECURSIVE splitlines(_)
splitlines(s) ==
    IF s = <<>> THEN <<>>
    ELSE LET i == first_break(s, 1)
         IN  IF i = 0 THEN <<s>>
             ELSE <<SubSeq(s, 1, i - 1)>> \o splitlines(SubSeq(s, i + 1, Len(s)))

(***************************************************************************)
(* The task forest.                                                        *)
(***************************************************************************)
\* {"text": text, "completed": False}
new_todo(text) ==
    [text |-> text, completed |-> FALSE, has_children |-> FALSE, children |-> <<>>]

\* The number of todos of a forest.
RECURSIVE task_count(_)
task_count(ts) ==
    IF ts = <<>> THEN 0
    ELSE 1 + task_count(Head(ts).children) + task_count(Tail(ts))

\* get_todo_by_path: <<todo>>, or <<>> for None.
RECURSIVE get_todo_by_path(_, _)
get_todo_by_path(ts, path) ==
    IF path = <<>> THEN <<>>
    ELSE IF ~(0 <= path[1] /\ path[1] < Len(ts)) THEN <<>>
    ELSE IF Len(path) = 1 THEN <<ts[path[1] + 1]>>
    ELSE get_todo_by_path(ts[path[1] + 1].children, Tail(path))

\* Mutant: a traversal that lists a todo after its children.
RECURSIVE recurse_children_first(_, _, _)
recurse_children_first(ts, prefix, i) ==
    IF i > Len(ts) THEN <<>>
    ELSE LET path == Append(prefix, i - 1)
             todo == ts[i]
         IN  (IF todo.children # <<>>
              THEN recurse_children_first(todo.children, path, 1) ELSE <<>>)
             \o <<path>>
             \o recurse_children_first(ts, prefix, i + 1)

\* get_flattened_paths: recurse(todos, prefix), from the i-th element on.
RECURSIVE recurse(_, _, _)
recurse(ts, prefix, i) ==
    IF i > Len(ts) THEN <<>>
    ELSE LET path == Append(prefix, i - 1)
             todo == ts[i]
         IN  <<path>>
             \o (IF todo.children # <<>> THEN recurse(todo.children, path, 1) ELSE <<>>)
             \o recurse(ts, prefix, i + 1)

get_flattened_paths(ts) == recurse(ts, <<>>, 1)

\* list.index as the code uses it: the 0-based position of the first element
\* equal to x, -1 where the code catches ValueError.
RECURSIVE index_from(_, _, _)
index_from(xs, x, i) ==
    IF i > Len(xs) THEN -1
    ELSE IF xs[i] = x THEN i - 1
    ELSE index_from(xs, x, i + 1)

index(xs, x) == index_from(xs, x, 1)

Min(a, b) == IF a < b THEN a ELSE b
Max(a, b) == IF a > b THEN a ELSE b

\* path[:-1]
parent_path(path) == SubSeq(path, 1, Len(path) - 1)
\* path[-1]
last_index(path) == path[Len(path)]

\* The list a path's last index refers to: self.todos for a path of length 1,
\* otherwise the "children" of the todo at path[:-1].
RECURSIVE siblings_at(_, _)
siblings_at(ts, pp) ==
    IF pp = <<>> THEN ts ELSE siblings_at(ts[pp[1] + 1].children, Tail(pp))

\* The forest after the list at pp was changed in place to new.
RECURSIVE with_siblings(_, _, _)
with_siblings(ts, pp, new) ==
    IF pp = <<>> THEN new
    ELSE [ts EXCEPT ![pp[1] + 1].children = with_siblings(@, Tail(pp), new)]

\* The forest after the dict at path was changed in place to todo.
RECURSIVE with_todo(_, _, _)
with_todo(ts, path, todo) ==
    IF Len(path) = 1 THEN [ts EXCEPT ![path[1] + 1] = todo]
    ELSE [ts EXCEPT ![path[1] + 1].children = with_todo(@, Tail(path), todo)]

\* del xs[i] (0-based, in range)
del_at(xs, i) == SubSeq(xs, 1, i) \o SubSeq(xs, i + 2, Len(xs))

\* xs.insert(i, x) (0-based; an index past the end appends)
insert_at(xs, i, x) ==
    LET k == Min(i, Len(xs)) IN SubSeq(xs, 1, k) \o <<x>> \o SubSeq(xs, k + 1, Len(xs))

(***************************************************************************)
(* Collaborators: storage and clipboard.                                   *)
(***************************************************************************)
\* main clears app.message before it dispatches a key (line 503): what an
\* operation that assigns no message leaves in self.message.
cleared_message == ""

\* The file after save_todos: written when open() and json.dump succeed, left
\* as it was when the write raises.
saved_after(ts, save_ok) == IF save_ok THEN ts ELSE saved

\* self.message after save_todos.
save_message(save_ok) == IF save_ok THEN "Saved!" ELSE "Error saving: OSError"

(***************************************************************************)
(* History manager.                                                        *)
(***************************************************************************)
\* Mutant: a mutation that takes no snapshot.
push_undo_dropped(stack, ts) == stack

\* push_undo: self.undo_stack.append(copy.deepcopy(self.todos))
push_undo(stack, ts) == Append(stack, ts)

\* Mutant: an undo that does not keep the state it leaves.
push_redo_dropped(stack, ts) == stack

\* push_redo: self.redo_stack.append(copy.deepcopy(self.todos))
push_redo(stack, ts) == Append(stack, ts)

\* Mutant: a mutation that forgets to clear the redo stack.
kept_redo == redo_stack

\* self.redo_stack.clear()
cleared_redo == <<>>

\* list.pop(): the stack without its last entry, and that entry.
popped(stack) == SubSeq(stack, 1, Len(stack) - 1)
top(stack) == stack[Len(stack)]

\* The cursor undo and redo leave: flat_paths[min(len(flat_paths) - 1, 0)], or
\* [0] for an empty forest.
history_cursor(ts) ==
    LET flat_paths == get_flattened_paths(ts)
    IN  IF flat_paths # <<>> THEN flat_paths[Min(Len(flat_paths) - 1, 0) + 1]
        ELSE <<0>>

\* Mutant: an undo that repositions the cursor whether or not it found a
\* snapshot.
undo_repositions ==
    IF undo_stack # <<>>
    THEN /\ redo_stack' = push_redo(redo_stack, todos)
         /\ todos' = top(undo_stack)
         /\ undo_stack' = popped(undo_stack)
         /\ current_path' = history_cursor(todos')
         /\ message' = "Undo performed!"
         /\ UNCHANGED <<current_line, saved>>
    ELSE /\ message' = "Nothing to undo!"
         /\ current_path' = history_cursor(todos)
         /\ UNCHANGED <<todos, current_line, undo_stack, redo_stack, saved>>

\* undo
undo ==
    IF undo_stack # <<>>
    THEN /\ redo_stack' = push_redo(redo_stack, todos)
         /\ todos' = top(undo_stack)
         /\ undo_stack' = popped(undo_stack)
         /\ current_path' = history_cursor(todos')
         /\ message' = "Undo performed!"
         /\ UNCHANGED <<current_line, saved>>
    ELSE /\ message' = "Nothing to undo!"
         /\ UNCHANGED <<todos, current_path, current_line, undo_stack, redo_stack,
                        saved>>

\* redo
redo ==
    IF redo_stack # <<>>
    THEN /\ undo_stack' = push_undo(undo_stack, todos)
         /\ todos' = top(redo_stack)
         /\ redo_stack' = popped(redo_stack)
         /\ current_path' = history_cursor(todos')
         /\ message' = "Redo performed!"
         /\ UNCHANGED <<current_line, saved>>
    ELSE /\ message' = "Nothing to redo!"
         /\ UNCHANGED <<todos, current_path, current_line, undo_stack, redo_stack,
                        saved>>

(***************************************************************************)
(* Mutation operations.                                                    *)
(***************************************************************************)
\* add_todo: the new todo goes to the end of self.todos; the method assigns
\* self.current_line and leaves self.current_path alone.
add_todo(text, save_ok) ==
    /\ undo_stack' = push_undo(undo_stack, todos)
    /\ redo_stack' = cleared_redo
    /\ todos' = Append(todos, new_todo(text))
    /\ saved' = saved_after(todos', save_ok)
    /\ message' = save_message(save_ok)
    /\ current_line' = <<Len(todos') - 1>>
    /\ UNCHANGED current_path

\* edit_todo
edit_todo(text, save_ok) ==
    LET todo == get_todo_by_path(todos, current_path)
    IN  IF todo # <<>>
        THEN /\ undo_stack' = push_undo(undo_stack, todos)
             /\ redo_stack' = cleared_redo
             /\ todos' = with_todo(todos, current_path, [todo[1] EXCEPT !.text = text])
             /\ saved' = saved_after(todos', save_ok)
             /\ message' = "Todo edited!"
             /\ UNCHANGED <<current_path, current_line>>
        ELSE /\ message' = cleared_message
             /\ UNCHANGED <<todos, current_path, current_line, undo_stack, redo_stack,
                            saved>>

\* toggle_todo
toggle_todo(save_ok) ==
    LET todo == get_todo_by_path(todos, current_path)
    IN  IF todo # <<>>
        THEN /\ undo_stack' = push_undo(undo_stack, todos)
             /\ redo_stack' = cleared_redo
             /\ todos' = with_todo(todos, current_path,
                                   [todo[1] EXCEPT !.completed = ~todo[1].completed])
             /\ saved' = saved_after(todos', save_ok)
             /\ message' = save_message(save_ok)
             /\ UNCHANGED <<current_path, current_line>>
        ELSE /\ message' = cleared_message
             /\ UNCHANGED <<todos, current_path, current_line, undo_stack, redo_stack,
                            saved>>

\* delete_todo: the forest without the todo at path (lines 150-155).
removed(ts, path) ==
    IF Len(path) = 1 THEN del_at(ts, path[1])
    ELSE LET parent == get_todo_by_path(ts, parent_path(path))
         IN  IF parent # <<>> /\ parent[1].has_children
             THEN with_siblings(ts, parent_path(path),
                                del_at(siblings_at(ts, parent_path(path)), last_index(path)))
             ELSE ts

\* Mutant: a deletion that leaves the cursor where it was.
delete_cursor_stale(ts, idx) == current_path

\* delete_todo: the cursor after the deletion (lines 158-162).
delete_cursor(ts, idx) ==
    LET flat_paths == get_flattened_paths(ts)
    IN  IF flat_paths # <<>> THEN flat_paths[Max(0, idx - 1) + 1] ELSE <<0>>

\* delete_todo raises when pyperclip.copy does: the call stands between the
\* history bookkeeping and the removal, and nothing catches its exception.
delete_raises(copy_ok) ==
    /\ index(get_flattened_paths(todos), current_path) # -1
    /\ ~copy_ok

\* delete_todo
delete_todo(copy_ok, save_ok) ==
    LET flat_paths == get_flattened_paths(todos)
        idx == index(flat_paths, current_path)
    IN  IF idx = -1
        THEN /\ message' = "No todo selected."
             /\ UNCHANGED <<todos, current_path, current_line, undo_stack, redo_stack,
                            saved>>
        ELSE LET path == flat_paths[idx + 1]
                 todo == get_todo_by_path(todos, path)
             IN  IF todo = <<>>
                 THEN /\ message' = cleared_message
                      /\ UNCHANGED <<todos, current_path, current_line, undo_stack,
                                     redo_stack, saved>>
                 ELSE /\ undo_stack' = push_undo(undo_stack, todos)
                      /\ redo_stack' = cleared_redo
                      /\ IF copy_ok
                         THEN /\ todos' = removed(todos, path)
                              /\ saved' = saved_after(todos', save_ok)
                              /\ current_path' = delete_cursor(todos', idx)
                              /\ message' = "Todo deleted and copied to clipboard!"
                         ELSE /\ message' = cleared_message
                              /\ UNCHANGED <<todos, current_path, saved>>
                      /\ UNCHANGED current_line

\* Mutant: every line inserted at insert_at, without the "+ i".
RECURSIVE inserted_same_index(_, _, _)
inserted_same_index(xs, at, lines) ==
    IF lines = <<>> THEN xs
    ELSE inserted_same_index(insert_at(xs, at, new_todo(Head(lines))), at, Tail(lines))

\* paste_todo: xs after lines were inserted at insert_at, insert_at + 1, ...
RECURSIVE inserted(_, _, _)
inserted(xs, at, lines) ==
    IF lines = <<>> THEN xs
    ELSE inserted(insert_at(xs, at, new_todo(Head(lines))), at + 1, Tail(lines))

\* paste_todo: the forest after the insertion (lines 195-205).
pasted(ts, path, lines) ==
    IF Len(path) = 1 THEN inserted(ts, path[1] + 1, lines)
    ELSE LET parent == get_todo_by_path(ts, parent_path(path))
         IN  IF parent # <<>> /\ parent[1].has_children
             THEN with_siblings(ts, parent_path(path),
                                inserted(siblings_at(ts, parent_path(path)),
                                         last_index(path) + 1, lines))
             ELSE ts

\* paste_todo: the cursor after the insertion (lines 209-211).
paste_cursor(ts, idx, n) ==
    LET flat_paths == get_flattened_paths(ts)
    IN  IF flat_paths # <<>> THEN flat_paths[Min(Len(flat_paths) - 1, idx + n) + 1]
        ELSE current_path

\* paste_todo; content is what pyperclip.paste() returns, paste_ok whether it
\* returns at all.
paste_todo(content, paste_ok, save_ok) ==
    IF ~paste_ok
    THEN /\ message' = "Error accessing clipboard: PyperclipException"
         /\ UNCHANGED <<todos, current_path, current_line, undo_stack, redo_stack,
                        saved>>
    ELSE IF strip(content) # <<>>
    THEN LET lines == splitlines(content)
             flat_paths == get_flattened_paths(todos)
             idx == index(flat_paths, current_path)
             path == IF idx # -1 THEN flat_paths[idx + 1] ELSE <<0>>
         IN  /\ undo_stack' = push_undo(undo_stack, todos)
             /\ redo_stack' = cleared_redo
             /\ todos' = pasted(todos, path, lines)
             /\ saved' = saved_after(todos', save_ok)
             /\ message' = "Pasted " \o ToString(Len(lines)) \o " todos from clipboard!"
             /\ current_path' = paste_cursor(todos', idx, Len(lines))
             /\ UNCHANGED current_line
    ELSE /\ message' = "Clipboard is empty!"
         /\ UNCHANGED <<todos, current_path, current_line, undo_stack, redo_stack,
                        saved>>

\* Mutant: a subtask that goes in front of the children instead of after them.
add_subtask_in_front(text, save_ok) ==
    LET parent == get_todo_by_path(todos, current_path)
    IN  /\ undo_stack' = push_undo(undo_stack, todos)
        /\ redo_stack' = cleared_redo
        /\ IF parent # <<>>
           THEN LET children == <<new_todo(text)>> \o parent[1].children
                IN  /\ todos' = with_todo(todos, current_path,
                                          [parent[1] EXCEPT !.has_children = TRUE,
                                                            !.children = children])
                    /\ saved' = saved_after(todos', save_ok)
                    /\ current_path' = Append(current_path, Len(children) - 1)
                    /\ message' = "Subtask added!"
           ELSE /\ message' = "No parent todo selected."
                /\ UNCHANGED <<todos, saved, current_path>>
        /\ UNCHANGED current_line

\* add_subtask
add_subtask(text, save_ok) ==
    LET parent == get_todo_by_path(todos, current_path)
    IN  /\ undo_stack' = push_undo(undo_stack, todos)
        /\ redo_stack' = cleared_redo
        /\ IF parent # <<>>
           THEN LET children == Append(parent[1].children, new_todo(text))
                IN  /\ todos' = with_todo(todos, current_path,
                                          [parent[1] EXCEPT !.has_children = TRUE,
                                                            !.children = children])
                    /\ saved' = saved_after(todos', save_ok)
                    /\ current_path' = Append(current_path, Len(children) - 1)
                    /\ message' = "Subtask added!"
           ELSE /\ message' = "No parent todo selected."
                /\ UNCHANGED <<todos, saved, current_path>>
        /\ UNCHANGED current_line

(***************************************************************************)
(* Navigation.                                                             *)
(***************************************************************************)
\* Mutant: a step down that wraps from the last entry to the first.
moved_down_wraps(ts, path) ==
    LET flat_paths == get_flattened_paths(ts)
        idx == index(flat_paths, path)
    IN  IF idx # -1
        THEN (IF idx < Len(flat_paths) - 1 THEN flat_paths[idx + 2] ELSE flat_paths[1])
        ELSE (IF flat_paths # <<>> THEN flat_paths[Len(flat_paths)] ELSE path)

\* move_up: self.current_path after the call, from the forest and the cursor.
moved_up(ts, path) ==
    LET flat_paths == get_flattened_paths(ts)
        idx == index(flat_paths, path)
    IN  IF idx # -1
        THEN (IF idx > 0 THEN flat_paths[idx] ELSE path)
        ELSE (IF flat_paths # <<>> THEN flat_paths[1] ELSE path)

\* move_down: self.current_path after the call, from the forest and the cursor.
moved_down(ts, path) ==
    LET flat_paths == get_flattened_paths(ts)
        idx == index(flat_paths, path)
    IN  IF idx # -1
        THEN (IF idx < Len(flat_paths) - 1 THEN flat_paths[idx + 2] ELSE path)
        ELSE (IF flat_paths # <<>> THEN flat_paths[Len(flat_paths)] ELSE path)

\* move_up
move_up == current_path' = moved_up(todos, current_path)

\* move_down
move_down == current_path' = moved_down(todos, current_path)

\* move_to_top
move_to_top ==
    LET flat_paths == get_flattened_paths(todos)
    IN  current_path' = IF flat_paths # <<>> THEN flat_paths[1] ELSE current_path

\* move_to_bottom
move_to_bottom ==
    LET flat_paths == get_flattened_paths(todos)
    IN  current_path' =
            IF flat_paths # <<>> THEN flat_paths[Len(flat_paths)] ELSE current_path

(***************************************************************************)
(* Visual mode and yank.                                                   *)
(***************************************************************************)
\* enter_visual_mode raises AttributeError when self.current_line was never
\* assigned: only add_todo assigns it.
enter_visual_raises == current_line = <<>>

\* enter_visual_mode
enter_visual_mode ==
    /\ mode' = "visual"
    /\ IF enter_visual_raises
       THEN /\ message' = cleared_message
            /\ UNCHANGED <<visual_start, visual_end>>
       ELSE /\ visual_start' = current_line
            /\ visual_end' = current_line
            /\ message' = "Visual mode"

\* exit_visual_mode
exit_visual_mode ==
    /\ mode' = "normal"
    /\ visual_start' = <<>>
    /\ visual_end' = <<>>
    /\ message' = ""

\* yank_todo raises when pyperclip.copy does.
yank_raises(copy_ok) == get_todo_by_path(todos, current_path) # <<>> /\ ~copy_ok

\* yank_todo; what it copies goes to the system clipboard, which the model
\* does not keep (see ClipboardContents).
yank_todo(copy_ok) ==
    IF yank_raises(copy_ok)
    THEN /\ message' = cleared_message
         /\ UNCHANGED <<mode, visual_start, visual_end>>
    ELSE IF mode = "visual"
    THEN exit_visual_mode
    ELSE /\ message' = IF get_todo_by_path(todos, current_path) # <<>>
                       THEN "Todo yanked to clipboard!"
                       ELSE cleared_message
         /\ UNCHANGED <<mode, visual_start, visual_end>>

(***************************************************************************)
(* Inputs.                                                                 *)
(***************************************************************************)
\* What the user may have typed when Enter ends handle_insert_mode.
InputTexts == { <<SP>>, <<SP, "a", SP>> }

\* What pyperclip.paste() may return.  The system clipboard belongs to the
\* environment: any program may set it between two keys, so a read returns
\* any of these, among them a text this program copied.
ClipboardContents == { <<>>, <<SP, NL>>, <<"a", NL>>, <<"x", NL, "y">> }

\* The forests load_todos may find in the file: none, a single todo, a todo
\* with a subtask, and two root todos of which one has a subtask and the
\* other an empty "children" list.
LoadedTodos ==
    { <<>>,
      << new_todo(<<"d">>) >>,
      << [text |-> <<"b">>, completed |-> FALSE, has_children |-> TRUE,
          children |-> << [text |-> <<"c">>, completed |-> TRUE,
                           has_children |-> FALSE, children |-> <<>>] >>] >>,
      << [text |-> <<"b">>, completed |-> FALSE, has_children |-> TRUE,
          children |-> << new_todo(<<"c">>) >>],
         [text |-> <<"d">>, completed |-> TRUE, has_children |-> TRUE,
          children |-> <<>>] >> }

(***************************************************************************)
(* History variables.                                                      *)
(***************************************************************************)
NoRoundTrip == [phase |-> "none", todos |-> <<>>, undo_stack |-> <<>>,
                redo_stack |-> <<>>]

\* The record of the step: the operation, its text input, whether the
\* clipboard answered, and how many snapshots the redo stack held before it.
Step(op, arg, clip_ok) ==
    /\ last' = [op |-> op, arg |-> arg, clip_ok |-> clip_ok,
                redo_len |-> Len(redo_stack)]
    /\ UNCHANGED <<T0, writable>>

Ran(op) == Step(op, <<>>, TRUE) /\ round_trip' = NoRoundTrip

(***************************************************************************)
(* The state after TodoApp() and main's set-up.                            *)
(***************************************************************************)
\* What every run starts from, whatever the file holds.
Constructed ==
    /\ current_path = <<0>>
    /\ current_line = <<>>
    /\ mode = "normal"
    /\ command_buffer = ""
    /\ message = ""
    /\ visual_start = <<>>
    /\ visual_end = <<>>
    /\ undo_stack = <<>>
    /\ redo_stack = <<>>
    /\ saved = todos
    /\ pc = "main"
    /\ T0 = todos
    /\ last = [op |-> "init", arg |-> <<>>, clip_ok |-> TRUE, redo_len |-> 0]
    /\ round_trip = NoRoundTrip

(***************************************************************************)
(* main's loop: one action per key that reaches an operation.  The first   *)
(* "g" only arms main's local gg_pressed, which any other key disarms; the *)
(* second runs move_to_top, and KeyGG is the pair.                         *)
(***************************************************************************)
uiVars == <<mode, visual_start, visual_end, command_buffer>>
treeVars == <<todos, undo_stack, redo_stack, saved, current_line>>

\* The model's bound on the history: a mutation needs room on the undo stack.
HistRoom == Len(undo_stack) < MaxHist

KeyJ ==
    /\ pc = "main"
    /\ move_down
    /\ message' = cleared_message
    /\ Ran("move_down")
    /\ UNCHANGED <<treeVars, uiVars, pc>>

KeyK ==
    /\ pc = "main"
    /\ move_up
    /\ message' = cleared_message
    /\ Ran("move_up")
    /\ UNCHANGED <<treeVars, uiVars, pc>>

KeyGG ==
    /\ pc = "main"
    /\ move_to_top
    /\ message' = cleared_message
    /\ Ran("move_to_top")
    /\ UNCHANGED <<treeVars, uiVars, pc>>

KeyShiftG ==
    /\ pc = "main"
    /\ move_to_bottom
    /\ message' = cleared_message
    /\ Ran("move_to_bottom")
    /\ UNCHANGED <<treeVars, uiVars, pc>>

\* "i", "e", "I": handle_insert_mode starts.
KeyInsert ==
    /\ pc = "main"
    /\ \E kind \in {"insert_new", "insert_edit", "insert_subtask"} :
          /\ pc' = kind
          /\ mode' = IF kind = "insert_subtask" THEN "insert_subtask" ELSE "insert"
          /\ Ran(kind)
    /\ message' = cleared_message
    /\ UNCHANGED <<treeVars, current_path, visual_start, visual_end, command_buffer>>

KeyX ==
    /\ pc = "main"
    /\ HistRoom
    /\ toggle_todo(writable)
    /\ Ran("toggle_todo")
    /\ UNCHANGED <<uiVars, pc>>

KeyD ==
    /\ pc = "main"
    /\ HistRoom
    /\ \E copy_ok \in BOOLEAN :
          /\ delete_todo(copy_ok, writable)
          /\ pc' = IF delete_raises(copy_ok) THEN "crashed" ELSE "main"
          /\ Step("delete_todo", <<>>, copy_ok)
    /\ round_trip' = NoRoundTrip
    /\ UNCHANGED uiVars

KeyY ==
    /\ pc = "main"
    /\ \E copy_ok \in BOOLEAN :
          /\ yank_todo(copy_ok)
          /\ pc' = IF yank_raises(copy_ok) THEN "crashed" ELSE "main"
          /\ Step("yank_todo", <<>>, copy_ok)
    /\ round_trip' = NoRoundTrip
    /\ UNCHANGED <<treeVars, current_path, command_buffer>>

KeyP ==
    /\ pc = "main"
    /\ HistRoom
    /\ \E content \in ClipboardContents, paste_ok \in BOOLEAN :
          /\ task_count(todos) + Len(splitlines(content)) <= MaxTasks
          /\ paste_todo(content, paste_ok, writable)
          /\ Step("paste_todo", content, paste_ok)
    /\ round_trip' = NoRoundTrip
    /\ UNCHANGED <<uiVars, pc>>

KeyShiftV ==
    /\ pc = "main"
    /\ enter_visual_mode
    /\ pc' = IF enter_visual_raises THEN "crashed" ELSE "main"
    /\ Ran("enter_visual_mode")
    /\ UNCHANGED <<treeVars, current_path, command_buffer>>

KeyU ==
    /\ pc = "main"
    /\ undo
    /\ Step("undo", <<>>, TRUE)
    /\ round_trip' =
          IF undo_stack # <<>>
          THEN [phase |-> "undone", todos |-> todos, undo_stack |-> undo_stack,
                redo_stack |-> redo_stack]
          ELSE NoRoundTrip
    /\ UNCHANGED <<uiVars, pc>>

KeyShiftU ==
    /\ pc = "main"
    /\ redo
    /\ Step("redo", <<>>, TRUE)
    /\ round_trip' =
          IF round_trip.phase = "undone"
          THEN [round_trip EXCEPT !.phase = "redone"]
          ELSE NoRoundTrip
    /\ UNCHANGED <<uiVars, pc>>

KeyEscape ==
    /\ pc = "main"
    /\ exit_visual_mode
    /\ Ran("exit_visual_mode")
    /\ UNCHANGED <<treeVars, current_path, command_buffer, pc>>

KeyColon ==
    /\ pc = "main"
    /\ mode' = "command"
    /\ command_buffer' = ""
    /\ message' = cleared_message
    /\ Ran("command")
    /\ UNCHANGED <<treeVars, current_path, visual_start, visual_end, pc>>

KeyW ==
    /\ pc = "main"
    /\ saved' = saved_after(todos, writable)
    /\ message' = save_message(writable)
    /\ Ran("save_todos")
    /\ UNCHANGED <<todos, current_path, current_line, undo_stack, redo_stack,
                   uiVars, pc>>

(***************************************************************************)
(* handle_insert_mode's loop: the keys that end it.  The other keys edit   *)
(* its local buffer, which Enter's input_text stands for.                  *)
(***************************************************************************)
InInsert == pc \in {"insert_new", "insert_edit", "insert_subtask"}

InsertEscape ==
    /\ InInsert
    /\ message' = "Cancelled"
    /\ mode' = "normal"
    /\ pc' = "main"
    /\ Ran("insert_escape")
    /\ UNCHANGED <<treeVars, current_path, visual_start, visual_end, command_buffer>>

\* Enter with a buffer that strips to nothing.
InsertEnterBlank ==
    /\ InInsert
    /\ \E input_text \in InputTexts :
          /\ strip(input_text) = <<>>
          /\ Step("insert_blank", input_text, TRUE)
    /\ round_trip' = NoRoundTrip
    /\ mode' = "normal"
    /\ pc' = "main"
    /\ UNCHANGED <<treeVars, current_path, message, visual_start, visual_end,
                   command_buffer>>

\* Enter with text: edit_todo, add_subtask or add_todo on the stripped buffer.
InsertEnter ==
    /\ InInsert
    /\ HistRoom
    /\ \E input_text \in InputTexts :
          /\ strip(input_text) # <<>>
          /\ CASE pc = "insert_edit" ->
                    /\ edit_todo(strip(input_text), writable)
                    /\ Step("edit_todo", strip(input_text), TRUE)
               [] pc = "insert_subtask" ->
                    /\ task_count(todos) < MaxTasks
                    /\ add_subtask(strip(input_text), writable)
                    /\ Step("add_subtask", strip(input_text), TRUE)
               [] OTHER ->
                    /\ task_count(todos) < MaxTasks
                    /\ add_todo(strip(input_text), writable)
                    /\ Step("add_todo", strip(input_text), TRUE)
    /\ round_trip' = NoRoundTrip
    /\ mode' = "normal"
    /\ pc' = "main"
    /\ UNCHANGED <<visual_start, visual_end, command_buffer>>

(***************************************************************************)
(* Properties.                                                             *)
(***************************************************************************)
\* The cursor's 0-based position in the flattened list, -1 when it is not in it.
cursor_index == index(get_flattened_paths(todos), current_path)

\* The list the cursor's last index refers to, and that index.
cursor_siblings == siblings_at(todos, parent_path(current_path))
cursor_sibling_index == last_index(current_path)

\* {text: line, completed: false} for each line, in order.
todos_of(lines) == [i \in 1..Len(lines) |-> new_todo(lines[i])]

\* The step ran a mutation and applied it.
Applied ==
    \/ last'.op = "add_todo"
    \/ /\ last'.op \in {"add_subtask", "edit_todo", "toggle_todo"}
       /\ get_todo_by_path(todos, current_path) # <<>>
    \/ /\ last'.op = "delete_todo"
       /\ cursor_index # -1
       /\ last'.clip_ok
    \/ /\ last'.op = "paste_todo"
       /\ last'.clip_ok
       /\ strip(last'.arg) # <<>>

\* The step ran paste_todo on non-blank content with the cursor on a task.
PastedAtCursor ==
    /\ last'.op = "paste_todo"
    /\ last'.clip_ok
    /\ strip(last'.arg) # <<>>
    /\ cursor_index # -1

\* The forest without the task at the cursor and its descendants.
WithoutCursorTask ==
    with_siblings(todos, parent_path(current_path),
                  del_at(cursor_siblings, cursor_sibling_index))

\* C1: in every reachable state the cursor path is an element of the
\* flattened list of the forest, or the forest is empty and the cursor is
\* the sentinel [0].
C1_CursorValid ==
    \/ cursor_index # -1
    \/ todos = <<>> /\ current_path = <<0>>

\* C1 witness: a deletion emptied a loaded forest and left the sentinel.
C1_Witness ==
    /\ last.op = "delete_todo"
    /\ T0 # <<>>
    /\ todos = <<>>
    /\ current_path = <<0>>

C3_RedoRestores ==
    round_trip.phase = "redone" =>
        /\ todos = round_trip.todos
        /\ undo_stack = round_trip.undo_stack
        /\ redo_stack = round_trip.redo_stack

\* C3 witness: a redo directly after an undo of a change.
C3_Witness ==
    /\ round_trip.phase = "redone"
    /\ last.op = "redo"
    /\ undo_stack # <<>>
    /\ todos # top(undo_stack)

C5_EmptyStackNoOp ==
    [][ /\ (last'.op = "undo" /\ undo_stack = <<>>) =>
              /\ todos' = todos
              /\ current_path' = current_path
              /\ redo_stack' = redo_stack
              /\ message' = "Nothing to undo!"
        /\ (last'.op = "redo" /\ redo_stack = <<>>) =>
              /\ todos' = todos
              /\ current_path' = current_path
              /\ undo_stack' = undo_stack
              /\ message' = "Nothing to redo!" ]_vars

\* C5 witness: undo found nothing, with the cursor away from the first entry.
C5_Witness ==
    /\ last.op = "undo"
    /\ undo_stack = <<>>
    /\ message = "Nothing to undo!"
    /\ cursor_index > 0

\* C6: delete_todo called with the cursor at flattened index i removes the
\* task at the cursor with its descendants and leaves the cursor on entry
\* max(0, i - 1) of the new flattened list, or on [0] when the forest is
\* empty.
C6_DeleteRepositions ==
    [][ (last'.op = "delete_todo" /\ cursor_index # -1) =>
            /\ todos' = WithoutCursorTask
            /\ current_path' =
                  IF todos' = <<>> THEN <<0>>
                  ELSE get_flattened_paths(todos')[Max(0, cursor_index - 1) + 1] ]_vars

\* What holds of delete_todo whenever pyperclip.copy returns: the removal
\* and the cursor of C6.
DeleteWhenCopied ==
    [][ (last'.op = "delete_todo" /\ cursor_index # -1 /\ last'.clip_ok) =>
            /\ todos' = WithoutCursorTask
            /\ current_path' =
                  IF todos' = <<>> THEN <<0>>
                  ELSE get_flattened_paths(todos')[Max(0, cursor_index - 1) + 1] ]_vars

\* C7: when the clipboard copy fails in delete_todo, the task at the cursor
\* is still removed and no exception leaves the operation.
C7_DeleteSurvivesClipboard ==
    [][ (last'.op = "delete_todo" /\ cursor_index # -1 /\ ~last'.clip_ok) =>
            /\ todos' = WithoutCursorTask
            /\ pc' # "crashed" ]_vars

C9_PasteCursorOnLastLine ==
    [][ PastedAtCursor =>
            current_path' =
                Append(parent_path(current_path),
                       cursor_sibling_index + Len(splitlines(last'.arg))) ]_vars

\* C10: after add_todo(text) the root list is the previous one with
\* {text, completed: false} appended, and the cursor is the path [n - 1] of
\* that new task.
C10_AddTodoMovesCursor ==
    [][ last'.op = "add_todo" =>
            /\ todos' = Append(todos, new_todo(last'.arg))
            /\ current_path' = <<Len(todos') - 1>> ]_vars

\* C11: add_subtask(text) with a task at the cursor path p appends
\* {text, completed: false} as the last child of that task, creating the
\* children list where the task had none, and changes no other task; the
\* cursor becomes p + [c], c the index of the new child, and the task at the
\* cursor is the new one.
C11_SubtaskAppended ==
    [][ (last'.op = "add_subtask" /\ get_todo_by_path(todos, current_path) # <<>>) =>
            LET parent == get_todo_by_path(todos, current_path)[1]
                c == Len(parent.children)
                grown == [parent EXCEPT !.has_children = TRUE,
                                        !.children = Append(parent.children,
                                                            new_todo(last'.arg))]
            IN  /\ todos' = with_todo(todos, current_path, grown)
                /\ task_count(todos') = task_count(todos) + 1
                /\ current_path' = Append(current_path, c)
                /\ get_todo_by_path(todos', current_path') = <<new_todo(last'.arg)>> ]_vars

\* C11 witness: a subtask was added to a task that already had one, and the
\* cursor is on it.
C11_Witness ==
    /\ last.op = "add_subtask"
    /\ undo_stack # <<>>
    /\ task_count(todos) = task_count(top(undo_stack)) + 1
    /\ Len(current_path) >= 2
    /\ last_index(current_path) = 1
    /\ get_todo_by_path(todos, current_path) = <<new_todo(last.arg)>>

\* p is q or an ancestor's path of q.
IsPrefix(p, q) == Len(p) <= Len(q) /\ SubSeq(q, 1, Len(p)) = p

\* C12: the flattened list holds each task's path exactly once (as many
\* entries as tasks, no two equal, each one the path of a task), a task's
\* path precedes the paths of its descendants, and siblings come in the
\* order of their list.
C12_FlattenPreOrder ==
    LET flat == get_flattened_paths(todos)
    IN  /\ Len(flat) = task_count(todos)
        /\ \A i \in 1..Len(flat) : get_todo_by_path(todos, flat[i]) # <<>>
        /\ \A i, j \in 1..Len(flat) :
              /\ i # j => flat[i] # flat[j]
              /\ (i # j /\ IsPrefix(flat[i], flat[j])) => i < j
              /\ ( /\ parent_path(flat[i]) = parent_path(flat[j])
                   /\ last_index(flat[i]) < last_index(flat[j]) ) => i < j

\* C12 witness: a forest three levels deep, grown by add_subtask.
C12_Witness ==
    /\ last.op = "add_subtask"
    /\ task_count(todos) = 3
    /\ Len(get_flattened_paths(todos)[3]) = 3

\* The operations of the keys j, k, gg and G.
NavOps == {"move_down", "move_up", "move_to_top", "move_to_bottom"}

\* Paths that address no task of a forest that holds one: past the end of
\* the root list, and past the end of the first task's children.
StalePaths(ts) ==
    { p \in { <<Len(ts)>>, <<Len(ts) + 1>>, <<0, Len(ts[1].children)>> } :
          index(get_flattened_paths(ts), p) = -1 }

\* C13: with the cursor at index i of the n flattened entries, move_down
\* goes to entry i + 1 and stays at the last entry, move_up goes to entry
\* i - 1 and stays at the first; from a path that is not in the list of a
\* forest that holds a task, move_up gives the first entry and move_down the
\* last; none of the four navigation operations changes the forest, the
\* undo stack or the redo stack.
C13_NavigationSteps ==
    [][ LET flat == get_flattened_paths(todos)
            n == Len(flat)
            i == cursor_index
        IN  /\ (last'.op = "move_down" /\ i # -1) =>
                  current_path' = IF i < n - 1 THEN flat[i + 2] ELSE current_path
            /\ (last'.op = "move_up" /\ i # -1) =>
                  current_path' = IF i > 0 THEN flat[i] ELSE current_path
            /\ (last'.op \in NavOps /\ todos # <<>>) =>
                  \A p \in StalePaths(todos) :
                      /\ moved_up(todos, p) = flat[1]
                      /\ moved_down(todos, p) = flat[n]
            /\ last'.op \in NavOps =>
                  /\ todos' = todos
                  /\ undo_stack' = undo_stack
                  /\ redo_stack' = redo_stack ]_vars

\* C13 witness: move_down reached the last of several entries, after a
\* mutation whose snapshot is still on the undo stack.
C13_Witness ==
    /\ last.op = "move_down"
    /\ Len(get_flattened_paths(todos)) >= 2
    /\ cursor_index = Len(get_flattened_paths(todos)) - 1
    /\ undo_stack # <<>>

\* C14: when the storage write of a mutation fails, the message the
\* operation leaves is the save error, and the file is left as it was.
C14_SaveFailureReported ==
    [][ (Applied /\ ~writable) =>
            /\ message' = save_message(FALSE)
            /\ saved' = saved ]_vars

\* An end of the range addresses the task at path: the code stores a root
\* index n there, which is read as the path [n].
addresses(range_end, path) == range_end # <<>> /\ <<range_end[1]>> = path

\* C15: enter_visual_mode in normal mode leaves the mode visual and both
\* ends of the range on the cursor path, and does not raise.
C15_VisualCapturesCursor ==
    [][ (last'.op = "enter_visual_mode" /\ mode = "normal") =>
            /\ mode' = "visual"
            /\ pc' # "crashed"
            /\ addresses(visual_start', current_path)
            /\ addresses(visual_end', current_path) ]_vars

\* C16: in visual mode a navigation operation sets the range end to the
\* path it moved to and leaves the range start.
C16_VisualNavigationMovesEnd ==
    [][ (last'.op \in NavOps /\ mode = "visual") =>
            /\ addresses(visual_end', current_path')
            /\ visual_start' = visual_start ]_vars

\* C17: from visual mode Escape and yank both end in normal mode with both
\* ends of the range unset, and change neither the forest nor the stacks.
C17_VisualExits ==
    [][ (last'.op \in {"exit_visual_mode", "yank_todo"} /\ mode = "visual") =>
            /\ mode' = "normal"
            /\ visual_start' = <<>>
            /\ visual_end' = <<>>
            /\ todos' = todos
            /\ undo_stack' = undo_stack
            /\ redo_stack' = redo_stack ]_vars

\* What holds of the two exits of visual mode whenever pyperclip.copy
\* returns: the mode, the range and the frame of C17.
VisualExitsWhenCopied ==
    [][ ( /\ last'.op \in {"exit_visual_mode", "yank_todo"}
          /\ mode = "visual"
          /\ last'.clip_ok ) =>
            /\ mode' = "normal"
            /\ visual_start' = <<>>
            /\ visual_end' = <<>>
            /\ todos' = todos
            /\ undo_stack' = undo_stack
            /\ redo_stack' = redo_stack ]_vars

\* The operation Enter commits from each variant of handle_insert_mode.
committed(variant) ==
    CASE variant = "insert_edit" -> "edit_todo"
      [] variant = "insert_subtask" -> "add_subtask"
      [] OTHER -> "add_todo"

\* C18: from insert mode, Escape returns to normal mode and leaves the
\* forest and both stacks; Enter on blank text returns to normal mode
\* and leaves them too; Enter on other text returns to normal mode after one
\* call of the variant's operation (add_todo, edit_todo, add_subtask) on the
\* text without its surrounding whitespace.
C18_InsertModeExits ==
    [][ InInsert =>
            /\ mode' = "normal"
            /\ pc' = "main"
            /\ last'.op \in {"insert_escape", "insert_blank"} =>
                  /\ todos' = todos
                  /\ undo_stack' = undo_stack
                  /\ redo_stack' = redo_stack
            /\ last'.op \notin {"insert_escape", "insert_blank"} =>
                  LET text == last'.arg
                      todo == get_todo_by_path(todos, current_path)
                  IN  /\ last'.op = committed(pc)
                      /\ text # <<>>
                      /\ ~IsSpace(text[1])
                      /\ ~IsSpace(text[Len(text)])
                      /\ last'.op = "add_todo" =>
                            /\ todos' = Append(todos, new_todo(text))
                            /\ undo_stack' = Append(undo_stack, todos)
                      /\ (last'.op = "edit_todo" /\ todo # <<>>) =>
                            /\ get_todo_by_path(todos', current_path) =
                                  <<[todo[1] EXCEPT !.text = text]>>
                            /\ task_count(todos') = task_count(todos)
                            /\ undo_stack' = Append(undo_stack, todos)
                      /\ (last'.op = "edit_todo" /\ todo = <<>>) =>
                            /\ todos' = todos
                            /\ undo_stack' = undo_stack
                      /\ (last'.op = "add_subtask" /\ todo # <<>>) =>
                            /\ get_todo_by_path(todos', current_path') = <<new_todo(text)>>
                            /\ task_count(todos') = task_count(todos) + 1
                            /\ undo_stack' = Append(undo_stack, todos) ]_vars

\* C18 witness: Enter committed an edit that changed the text of the task at
\* the cursor, and the mode is normal again.
C18_Witness ==
    /\ last.op = "edit_todo"
    /\ mode = "normal"
    /\ pc = "main"
    /\ undo_stack # <<>>
    /\ top(undo_stack) # todos
    /\ get_todo_by_path(todos, current_path) # <<>>
    /\ get_todo_by_path(todos, current_path)[1].text = last.arg

\* The step ran an operation that found nothing to act on.
Failed ==
    \/ /\ last'.op \in {"add_subtask", "edit_todo", "toggle_todo"}
       /\ get_todo_by_path(todos, current_path) = <<>>
    \/ /\ last'.op = "delete_todo"
       /\ cursor_index = -1
    \/ /\ last'.op = "paste_todo"
       /\ last'.clip_ok
       /\ strip(last'.arg) = <<>>

\* C19: an operation that finds nothing to act on leaves the forest, the
\* undo stack and the redo stack as they were.
C19_FailedOpLeavesState ==
    [][ Failed =>
            /\ todos' = todos
            /\ undo_stack' = undo_stack
            /\ redo_stack' = redo_stack ]_vars

\* C20: with a storage that can be written, every step that changes the
\* forest leaves the file equal to it, and navigation and yank leave the
\* file alone.
C20_PersistedEqualsMemory ==
    [][ /\ todos' # todos => saved' = todos'
        /\ last'.op \in NavOps \cup {"yank_todo"} => saved' = saved ]_vars

\* What holds of the file after every operation other than undo and redo.
PersistedUnlessHistory ==
    [][ /\ (todos' # todos /\ last'.op \notin {"undo", "redo"}) => saved' = todos'
        /\ last'.op \in NavOps \cup {"yank_todo"} => saved' = saved ]_vars

\* C21: in every reachable state a normal mode has both ends of the range
\* unset, and an end of the range is set only while the mode is visual.
C21_RangeOnlyInVisual ==
    /\ mode = "normal" => (visual_start = <<>> /\ visual_end = <<>>)
    /\ (visual_start # <<>> \/ visual_end # <<>>) => mode = "visual"

\* What holds of the range in every reachable state: its two ends are set
\* or unset together, and are unset until enter_visual_mode has run.
RangeEndsTogether == (visual_start = <<>>) <=> (visual_end = <<>>)

(***************************************************************************)
(* Specifications.                                                         *)
(*                                                                         *)
(* Spec: the task tree, the history and the navigation, that is the keys   *)
(* j k gg G i e I x d y p u U w and handle_insert_mode, over a storage     *)
(* that can be written.  No operation these keys run reads self.mode,      *)
(* self.visual_start or self.visual_end except yank_todo, which then runs  *)
(* its branch for the modes other than visual.                             *)
(*                                                                         *)
(* SpecLoop: every key of main's loop, from one loaded forest.             *)
(*                                                                         *)
(* SpecReadOnly: the keys of Spec over a storage that cannot be written.   *)
(***************************************************************************)
Init ==
    /\ todos \in LoadedTodos
    /\ writable = TRUE
    /\ Constructed

Next ==
    \/ KeyJ \/ KeyK \/ KeyGG \/ KeyShiftG
    \/ KeyInsert \/ InsertEscape \/ InsertEnterBlank \/ InsertEnter
    \/ KeyX \/ KeyD \/ KeyY \/ KeyP
    \/ KeyU \/ KeyShiftU \/ KeyW

Spec == Init /\ [][Next]_vars

InitLoop ==
    /\ todos \in {t \in LoadedTodos : task_count(t) = 1}
    /\ writable = TRUE
    /\ Constructed

NextLoop ==
    \/ Next
    \/ KeyShiftV \/ KeyEscape \/ KeyColon

SpecLoop == InitLoop /\ [][NextLoop]_vars

InitReadOnly ==
    /\ todos \in LoadedTodos
    /\ writable = FALSE
    /\ Constructed

SpecReadOnly == InitReadOnly /\ [][Next]_vars

====
